---- MODULE Spec2Model ----
(***************************************************************************)
(* Model of the LWC/React interop generator (scripts/lwcWrapperGenerator.js)*)
(* and of the runtime bridge it generates (scripts/templates/lwcWrapper.js).*)
(*                                                                         *)
(* Three state machines share the module:                                  *)
(*   SpecEnc  the chunk encoder and the runtime decode on the CONTENT of a  *)
(*            bundle: UTF-8, base64, slicing, concatenation, atob.          *)
(*            Sequences of 800000 symbols are out of reach of a model      *)
(*            checker, so the slice length is the bound SliceSize here.    *)
(*   SpecGen  one generate() run after another on the LENGTHS of the        *)
(*            bundle, with the real chunkSize of 800000, the files on disk  *)
(*            and the temporary directories.                               *)
(*   SpecRt   the lifecycle hooks of generated component instances that    *)
(*            share one window.                                            *)
(***************************************************************************)
EXTENDS Integers, Sequences, FiniteSets

\* ------------------------------------------------------------------ bounds
\* longest component name given to generate-app, in characters
MaxNameLen == 2
\* files another process deletes while compileStyles runs
MaxDeletes == 2
\* runs of the command line
MaxCliRuns == 2
\* calls of the auxiliary generators
MaxAuxCalls == 2
\* longest bundle text of the content-level model, in UTF-16 code units
MaxLen == 4
\* slice length of the content-level model (stands for chunkSize)
SliceSize == 4
\* generate() runs into the same output directory
MaxRuns == 2
\* lifecycle hook invocations, all instances together
MaxHooks == 5

\* --------------------------------------------------------------- constants
chunkSize == 800000
HostCeiling == 1000000

VARIABLES
  \* content-level encoder
  encPc, compiledReact, encodedReact, encChunkFiles, encConcat, decodedCode,
  \* generate() pipeline
  genPc, runs, bundleBytes, reactDone, stylesDone, tempBuild, tempCssBuild,
  chunks, chunkFiles, mainScript, written, result, thrown, errorMessage, failedRuns,
  \* runtime bridge
  React, ReactDOM, windowProcess, windowReactAppComponent,
  hasRendered, reactRoot, shadowRoot, live, mountedFactory,
  hooks, calls, decodes, executes, mounts, noops, mountedAt, unmounts, last,
  documentStyles, shadowStyles,
  \* auxiliary React / ReactDOM components
  auxDisk, auxLast, auxCalls, importResults,
  \* generateMultiple
  multiPc, requested, attempted, multiResults, componentName, otherDirs,
  \* command line
  cliPc, cliRuns, cliLast,
  \* compileStyles on the content of the stylesheets
  srcTree, exists, styPc, imported, discovered, cursor, cssContent, styResult,
  styError, omitted, deletes, deletedLate,
  \* generate-app
  appPc, appArgs, appRan, appExit

encVars == <<encPc, compiledReact, encodedReact, encChunkFiles, encConcat, decodedCode>>
genVars == <<genPc, runs, bundleBytes, reactDone, stylesDone, tempBuild, tempCssBuild,
             chunks, chunkFiles, mainScript, written, result, thrown, errorMessage,
             failedRuns>>
rtVars == <<React, ReactDOM, windowProcess, windowReactAppComponent,
            hasRendered, reactRoot, shadowRoot, live, mountedFactory,
            hooks, calls, decodes, executes, mounts, noops, mountedAt, unmounts, last,
            documentStyles, shadowStyles>>
auxVars == <<auxDisk, auxLast, auxCalls, importResults>>
multiVars == <<multiPc, requested, attempted, multiResults, componentName, otherDirs>>
cliVars == <<cliPc, cliRuns, cliLast>>
styVars == <<srcTree, exists, styPc, imported, discovered, cursor, cssContent, styResult,
             styError, omitted, deletes, deletedLate>>
appVars == <<appPc, appArgs, appRan, appExit>>
toolVars == <<auxVars, multiVars, cliVars, styVars, appVars>>
\* everything but the auxiliary components
exceptAux == <<encVars, genVars, rtVars, multiVars, cliVars, styVars, appVars>>
\* everything but generate() and generateMultiple
exceptMulti == <<encVars, rtVars, auxVars, cliVars, styVars, appVars>>
\* everything but the content of the stylesheets
exceptSty == <<encVars, genVars, rtVars, auxVars, multiVars, cliVars, appVars>>
\* everything but generate-app
exceptApp == <<encVars, genVars, rtVars, auxVars, multiVars, cliVars, styVars>>
vars == <<encVars, genVars, rtVars, toolVars>>

\* component instances sharing one window; instance i runs the bundle of
\* generated component i
Inst == {1, 2}

\* what the most recent hook invocation on an instance did
NoHook == [hook |-> "none", done |-> <<>>, failed |-> "none", reported |-> FALSE,
           escaped |-> FALSE, container |-> FALSE, unmountInvoked |-> FALSE]

\* lwcName of the components a caller may request
Names == {"appInterop", "dashboard"}

\* the main script before it was ever written
NoFile == [imports |-> <<>>, concat |-> <<>>, present |-> FALSE]

\* the two auxiliary components, by directory name
AuxComponents == {"react", "reactdom"}

\* a component directory before anything was generated into it; js is the
\* text of the script module, line by line
NoAuxDir == [js |-> <<>>, html |-> FALSE, css |-> FALSE, meta |-> FALSE]

\* what the most recent generateReactImport / generateReactDOMImport did
NoAuxCall == [result |-> "none", error |-> "none", warned |-> FALSE, logged |-> FALSE,
              fault |-> "none", libExists |-> TRUE, escaped |-> FALSE, wrote |-> {}]

Range(f) == {f[x] : x \in DOMAIN f}

Min(a, b) == IF a < b THEN a ELSE b

\* String.prototype.slice(i, j) on a sequence, 0-based, end exclusive and clamped
Slice(s, i, j) == SubSeq(s, i + 1, Min(j, Len(s)))

\* =========================================================================
\* Content level: Buffer.from(text).toString('base64'), slicing, atob
\* =========================================================================

\* code units of the bundle alphabet: 'A', U+00E9 (2 bytes in UTF-8),
\* U+20AC (3 bytes in UTF-8)
Alphabet == {65, 233, 8364}

\* the '=' padding symbol; 0..63 are the base64 digits
Pad == 64

\* Buffer.from(string): the UTF-8 bytes of one code unit below U+10000
Utf8Char(c) ==
  IF c < 128 THEN <<c>>
  ELSE IF c < 2048 THEN <<192 + (c \div 64), 128 + (c % 64)>>
  ELSE <<224 + (c \div 4096), 128 + ((c \div 64) % 64), 128 + (c % 64)>>

RECURSIVE Utf8(_)
Utf8(s) == IF s = <<>> THEN <<>> ELSE Utf8Char(Head(s)) \o Utf8(Tail(s))

\* buf.toString('base64'): three bytes to four digits, '=' padded
RECURSIVE Base64(_)
Base64(b) ==
  IF Len(b) = 0 THEN <<>>
  ELSE IF Len(b) = 1 THEN
    <<b[1] \div 4, (b[1] % 4) * 16, Pad, Pad>>
  ELSE IF Len(b) = 2 THEN
    <<b[1] \div 4, (b[1] % 4) * 16 + (b[2] \div 16), (b[2] % 16) * 4, Pad>>
  ELSE
    <<b[1] \div 4, (b[1] % 4) * 16 + (b[2] \div 16),
      (b[2] % 16) * 4 + (b[3] \div 64), b[3] % 64>> \o Base64(SubSeq(b, 4, Len(b)))

\* atob(e): four digits to three bytes; the result is a string whose code
\* units ARE the bytes (one unit per byte, no UTF-8 decoding)
RECURSIVE Atob(_)
Atob(e) ==
  IF Len(e) < 4 THEN <<>>
  ELSE
    LET d1 == e[1]  d2 == e[2]  d3 == e[3]  d4 == e[4]
        b1 == d1 * 4 + (d2 \div 16)
        rest == Atob(SubSeq(e, 5, Len(e)))
    IN IF d3 = Pad THEN <<b1>>
       ELSE IF d4 = Pad THEN <<b1, (d2 % 16) * 16 + (d3 \div 4)>>
       ELSE <<b1, (d2 % 16) * 16 + (d3 \div 4), (d3 % 4) * 64 + d4>> \o rest

\* for (let i = 0; i < encoded.length; i += size) chunks.push(encoded.slice(i, i + size))
RECURSIVE ChunkLoop(_, _, _)
ChunkLoop(encoded, i, size) ==
  IF i < Len(encoded)
  THEN <<Slice(encoded, i, i + size)>> \o ChunkLoop(encoded, i + size, size)
  ELSE <<>>

\* chunks.map((_, index) => ...): the indices 0..N-1 in order
MapIndex(n) == [k \in 1..n |-> k - 1]

\* chunk0 + chunk1 + ...: the chunk constants named by the expression, in its order
RECURSIVE ConcatChunks(_, _)
ConcatChunks(files, expr) ==
  IF expr = <<>> THEN <<>>
  ELSE files[Head(expr)] \o ConcatChunks(files, Tail(expr))

RECURSIVE SeqsUpTo(_, _)
SeqsUpTo(S, n) ==
  IF n = 0 THEN {<<>>}
  ELSE LET shorter == SeqsUpTo(S, n - 1)
       IN shorter \cup {Append(s, x) : s \in {t \in shorter : Len(t) = n - 1}, x \in S}

Texts == SeqsUpTo(Alphabet, MaxLen) \ {<<>>}

EncIdle ==
  /\ encPc = "off"
  /\ compiledReact = <<>>
  /\ encodedReact = <<>>
  /\ encChunkFiles = <<>>
  /\ encConcat = <<>>
  /\ decodedCode = <<>>

GenIdle ==
  /\ genPc = "off"
  /\ runs = 0
  /\ bundleBytes = 0
  /\ reactDone = FALSE
  /\ stylesDone = FALSE
  /\ tempBuild = FALSE
  /\ tempCssBuild = FALSE
  /\ chunks = <<>>
  /\ chunkFiles = <<>>
  /\ mainScript = [imports |-> <<>>, concat |-> <<>>, present |-> FALSE]
  /\ written = {}
  /\ result = "none"
  /\ thrown = "none"
  /\ errorMessage = "none"
  /\ failedRuns = 0

RtIdle ==
  /\ React = FALSE
  /\ ReactDOM = FALSE
  /\ windowProcess = FALSE
  /\ windowReactAppComponent = 0
  /\ hasRendered = [i \in Inst |-> FALSE]
  /\ reactRoot = [i \in Inst |-> 0]
  /\ shadowRoot = [i \in Inst |-> FALSE]
  /\ live = [i \in Inst |-> FALSE]
  /\ mountedFactory = [i \in Inst |-> 0]
  /\ hooks = 0
  /\ calls = [i \in Inst |-> 0]
  /\ decodes = [i \in Inst |-> 0]
  /\ executes = [i \in Inst |-> 0]
  /\ mounts = [i \in Inst |-> 0]
  /\ noops = [i \in Inst |-> 0]
  /\ mountedAt = [i \in Inst |-> 0]
  /\ unmounts = [i \in Inst |-> 0]
  /\ last = [i \in Inst |-> NoHook]
  /\ documentStyles = FALSE
  /\ shadowStyles = [i \in Inst |-> FALSE]

AuxIdle ==
  /\ auxDisk = [c \in AuxComponents |-> NoAuxDir]
  /\ auxLast = [c \in AuxComponents |-> NoAuxCall]
  /\ auxCalls = 0
  /\ importResults = <<>>

MultiIdle ==
  /\ multiPc = "idle"
  /\ requested = <<>>
  /\ attempted = <<>>
  /\ multiResults = <<>>
  /\ componentName = "appInterop"
  /\ otherDirs = [n \in Names |-> [chunkFiles |-> <<>>, mainScript |-> NoFile]]

\* what the most recent run of the command line did
NoCliRun == [mode |-> "none", exitCode |-> 0, imports |-> FALSE]

CliIdle ==
  /\ cliPc = "none"
  /\ cliRuns = 0
  /\ cliLast = NoCliRun

StyIdle ==
  /\ srcTree = <<>>
  /\ exists = {}
  /\ styPc = "off"
  /\ imported = <<>>
  /\ discovered = <<>>
  /\ cursor = 0
  /\ cssContent = <<>>
  /\ styResult = "none"
  /\ styError = "none"
  /\ omitted = {}
  /\ deletes = 0
  /\ deletedLate = {}

\* argv of generate-app before it is run
NoAppArgs == [kind |-> "none", name |-> <<>>, deploy |-> FALSE, open |-> FALSE]

AppIdle ==
  /\ appPc = "off"
  /\ appArgs = NoAppArgs
  /\ appRan = <<>>
  /\ appExit = -1

ToolIdle == AuxIdle /\ MultiIdle /\ CliIdle /\ StyIdle /\ AppIdle

InitEnc ==
  /\ encPc = "compiled"
  /\ compiledReact \in Texts
  /\ encodedReact = <<>>
  /\ encChunkFiles = <<>>
  /\ encConcat = <<>>
  /\ decodedCode = <<>>
  /\ GenIdle
  /\ RtIdle
  /\ ToolIdle

\* generateJavaScriptFile, lines 352-393, on the content of the bundle: the
\* chunk constants written to the chunk files (a function of the index) and
\* the concatenation expression of the main script
EncodeChunks ==
  /\ encPc = "compiled"
  /\ LET encoded == Base64(Utf8(compiledReact))
         cs == ChunkLoop(encoded, 0, SliceSize)
     IN /\ encodedReact' = encoded
        /\ encChunkFiles' = [k \in {i - 1 : i \in 1..Len(cs)} |-> cs[k + 1]]
        /\ encConcat' = MapIndex(Len(cs))
  /\ encPc' = "generated"
  /\ UNCHANGED <<compiledReact, decodedCode>>
  /\ UNCHANGED <<genVars, rtVars, toolVars>>

\* the generated runtime: const encodedCode = chunk0 + chunk1 + ...;
\* const decodedCode = atob(encodedCode)
DecodeBundle ==
  /\ encPc = "generated"
  /\ decodedCode' = Atob(ConcatChunks(encChunkFiles, encConcat))
  /\ encPc' = "decoded"
  /\ UNCHANGED <<compiledReact, encodedReact, encChunkFiles, encConcat>>
  /\ UNCHANGED <<genVars, rtVars, toolVars>>

NextEnc == EncodeChunks \/ DecodeBundle

SpecEnc == InitEnc /\ [][NextEnc]_vars

\* C1: for every non-empty bundle text, non-ASCII texts included, the text the
\* runtime obtains by concatenating the chunks in index order and decoding
\* once with atob equals the compiled text exactly.
C1_RoundTrip == encPc = "decoded" => decodedCode = compiledReact

\* =========================================================================
\* Length level: generate() with the real chunkSize, the files it writes and
\* the temporary directories of the two webpack stages
\* =========================================================================

\* UTF-8 byte lengths of the compiled bundle that webpack may hand back
BundleSizes == {0, 1, 2, 3, 150000, 599999, 600000, 600001, 1200000, 1200001,
                2500000, 3000000}

\* outcomes of a webpack callback: compiled and read, err or stats.hasErrors(),
\* an exception while reading the output or removing the directory
WebpackOutcomes == {"ok", "webpackError", "readError"}

\* Buffer.from(compiledReact).toString('base64').length
EncodedLength(bytes) == 4 * ((bytes + 2) \div 3)

\* the loop condition of the chunk loop: i < encodedReact.length
LoopContinuesOffByOne(i, len) == i <= len
LoopContinues(i, len) == i < len

\* encodedReact.slice(i, i + chunkSize).length
SliceLengthUncapped(len, i, j) == len - i
SliceLength(len, i, j) == Min(j, len) - i

\* the chunk loop on lengths: the lengths of the slices pushed, in order
RECURSIVE ChunkLengths(_, _, _)
ChunkLengths(len, i, size) ==
  IF LoopContinues(i, len)
  THEN <<SliceLength(len, i, i + size)>> \o ChunkLengths(len, i + size, size)
  ELSE <<>>

\* the number in the file name `${componentName}Chunk${index}.js` and in the
\* exported constant `chunk${index}` of the forEach callback
ChunkNumberOneBased(index) == index + 1
ChunkNumber(index) == index

\* number of decimal digits of n >= 0, as template interpolation prints it
RECURSIVE Digits(_)
Digits(n) == IF n < 10 THEN 1 ELSE 1 + Digits(n \div 10)

\* byte size of one chunk file: "// React Bundle Chunk ${index + 1}/${N}\n"
\* then "export const chunk${index} = '${chunk}';\n"; base64 is ASCII, one byte
\* per character
ChunkFileBytes(index, n, len) ==
  (22 + Digits(index + 1) + 1 + Digits(n) + 1)
  + (18 + Digits(ChunkNumber(index)) + 4 + len + 2 + 1)

\* the chunk files written by chunks.forEach, keyed by the number in the name
ChunkFilesOf(cs) ==
  [f \in {ChunkNumber(k - 1) : k \in 1..Len(cs)} |->
     LET k == CHOOSE k \in 1..Len(cs) : ChunkNumber(k - 1) = f
     IN [const |-> ChunkNumber(k - 1), len |-> cs[k],
         bytes |-> ChunkFileBytes(k - 1, Len(cs), cs[k])]]

\* files of one function overwrite the same-named files on disk; the others stay
Overwrite(disk, new) ==
  [f \in DOMAIN disk \cup DOMAIN new |-> IF f \in DOMAIN new THEN new[f] ELSE disk[f]]

InitGen ==
  /\ genPc = "idle"
  /\ runs = 0
  /\ bundleBytes = 0
  /\ reactDone = FALSE
  /\ stylesDone = FALSE
  /\ tempBuild = FALSE
  /\ tempCssBuild = FALSE
  /\ chunks = <<>>
  /\ chunkFiles = <<>>
  /\ mainScript = NoFile
  /\ written = {}
  /\ result = "none"
  /\ thrown = "none"
  /\ errorMessage = "none"
  /\ failedRuns = 0
  /\ EncIdle
  /\ RtIdle
  /\ ToolIdle

\* the catch of generate() with the error a stage threw or rejected with:
\* return { success: false, error: error.message }
GenerateFailsGeneric(error) ==
  /\ thrown' = error
  /\ result' = "failure"
  /\ errorMessage' = "Generation failed"
  /\ failedRuns' = failedRuns + 1
  /\ genPc' = "done"
GenerateFails(error) ==
  /\ thrown' = error
  /\ result' = "failure"
  /\ errorMessage' = error
  /\ failedRuns' = failedRuns + 1
  /\ genPc' = "done"

\* generate() goes on to write files once both compilations were awaited
CompilationAwaitedReactOnly == genPc \in {"compileStyles", "writeJs"}
CompilationAwaited == genPc = "writeJs"

\* generate() up to the call of webpack in compileReactComponents:
\* createOutputDirectory, getTemplate('lwcWrapper.js'), then the executor of
\* compileReactComponents creates temp-build and writes the entry file
GenerateSync(templateExists) ==
  /\ genPc \in {"idle", "done"}
  /\ runs < MaxRuns
  /\ runs' = runs + 1
  /\ reactDone' = FALSE
  /\ stylesDone' = FALSE
  /\ chunks' = <<>>
  /\ written' = {}
  /\ bundleBytes' = 0
  /\ IF templateExists
     THEN /\ tempBuild' = TRUE
          /\ genPc' = "webpackReact"
          /\ result' = "none"
          /\ thrown' = "none"
          /\ errorMessage' = "none"
          /\ UNCHANGED failedRuns
     ELSE /\ GenerateFails("Template file not found")
          /\ UNCHANGED tempBuild
  /\ UNCHANGED tempCssBuild

\* generate() on a generator whose component directory is the one of the
\* previous run
GenerateStart(templateExists) ==
  /\ GenerateSync(templateExists)
  /\ UNCHANGED <<chunkFiles, mainScript>>
  /\ UNCHANGED <<encVars, rtVars, toolVars>>

\* the webpack callback of compileReactComponents
ReactWebpackDone(outcome, bytes) ==
  /\ genPc = "webpackReact"
  /\ IF outcome = "ok"
     THEN /\ tempBuild' = FALSE
          /\ bundleBytes' = bytes
          /\ reactDone' = TRUE
          /\ genPc' = "compileStyles"
          /\ UNCHANGED <<result, thrown, errorMessage, failedRuns>>
     ELSE /\ GenerateFails(IF outcome = "webpackError" THEN "bundle build failed"
                           ELSE "bundle output not readable")
          /\ UNCHANGED <<tempBuild, bundleBytes, reactDone>>
  /\ UNCHANGED <<runs, stylesDone, tempCssBuild, chunks, chunkFiles, mainScript, written>>
  /\ UNCHANGED <<encVars, rtVars, toolVars>>

\* compileStyles up to the call of webpack: findCSSFiles(srcDir) may throw,
\* then temp-css-build is created and the entry file written
CompileStylesStart(findOk) ==
  /\ genPc = "compileStyles"
  /\ IF findOk
     THEN /\ tempCssBuild' = TRUE
          /\ genPc' = "webpackStyles"
          /\ UNCHANGED <<result, thrown, errorMessage, failedRuns>>
     ELSE /\ GenerateFails("source directory not readable")
          /\ UNCHANGED tempCssBuild
  /\ UNCHANGED <<runs, bundleBytes, reactDone, stylesDone, tempBuild, chunks,
                 chunkFiles, mainScript, written>>
  /\ UNCHANGED <<encVars, rtVars, toolVars>>

\* the webpack callback of compileStyles
StylesWebpackDone(outcome) ==
  /\ genPc = "webpackStyles"
  /\ IF outcome = "ok"
     THEN /\ tempCssBuild' = FALSE
          /\ stylesDone' = TRUE
          /\ genPc' = "writeJs"
          /\ UNCHANGED <<result, thrown, errorMessage, failedRuns>>
     ELSE /\ GenerateFails(IF outcome = "webpackError" THEN "style build failed"
                           ELSE "style output not readable")
          /\ UNCHANGED <<tempCssBuild, stylesDone>>
  /\ UNCHANGED <<runs, bundleBytes, reactDone, tempBuild, chunks, chunkFiles,
                 mainScript, written>>
  /\ UNCHANGED <<encVars, rtVars, toolVars>>

\* the rest of generateJavaScriptFile: encode, slice, write one file per
\* chunk, build the imports and the concatenation, write the main script
WriteJavaScript ==
  /\ CompilationAwaited
  /\ LET cs == ChunkLengths(EncodedLength(bundleBytes), 0, chunkSize)
         files == ChunkFilesOf(cs)
         idx == MapIndex(Len(cs))
     IN /\ chunks' = cs
        /\ chunkFiles' = Overwrite(chunkFiles, files)
        /\ mainScript' = [imports |-> [k \in 1..Len(cs) |->
                                         [const |-> idx[k], from |-> idx[k]]],
                          concat |-> idx,
                          present |-> TRUE]
        /\ written' = written \cup {<<"chunk", f>> : f \in DOMAIN files}
                              \cup {<<"main", 0>>}
  /\ genPc' = "descriptors"
  /\ UNCHANGED <<runs, bundleBytes, reactDone, stylesDone, tempBuild, tempCssBuild,
                 result, thrown, errorMessage, failedRuns>>
  /\ UNCHANGED <<encVars, rtVars, toolVars>>

\* generateHTMLFile, generateMetaFile, generateCSSFile and the return of
\* generate(); missing = the number of descriptor files written before a
\* template is found missing (3: none is missing)
GenerateDescriptors(ok) ==
  /\ genPc = "descriptors"
  /\ written' = written \cup {<<<<"html", "meta", "css">>[k], 0>> : k \in 1..ok}
  /\ IF ok = 3
     THEN /\ result' = "success"
          /\ genPc' = "done"
          /\ UNCHANGED <<thrown, errorMessage, failedRuns>>
     ELSE GenerateFails("Template file not found")
  /\ UNCHANGED <<runs, bundleBytes, reactDone, stylesDone, tempBuild, tempCssBuild,
                 chunks, chunkFiles, mainScript>>
  /\ UNCHANGED <<encVars, rtVars, toolVars>>

NextGen ==
  \/ \E t \in BOOLEAN : GenerateStart(t)
  \/ \E o \in WebpackOutcomes, b \in BundleSizes : ReactWebpackDone(o, b)
  \/ \E f \in BOOLEAN : CompileStylesStart(f)
  \/ \E o \in WebpackOutcomes : StylesWebpackDone(o)
  \/ WriteJavaScript
  \/ \E k \in 0..3 : GenerateDescriptors(k)

SpecGen == InitGen /\ [][NextGen]_vars

CeilDiv(a, b) == (a + b - 1) \div b

\* the chunk files written by the current run
WrittenChunks == {w[2] : w \in {x \in written : x[1] = "chunk"}}

\* generateJavaScriptFile has completed in the current run
JsWritten == <<"main", 0>> \in written

\* C3: when the compiled bundle text is empty, generation is rejected:
\* generate() reports success=false and the run writes no main script (which
\* would reference an empty chunk set).
C3_EmptyBundleRejected ==
  (genPc = "done" /\ reactDone /\ stylesDone /\ bundleBytes = 0)
    => (result = "failure" /\ ~JsWritten)

\* C4: for every non-empty bundle, generateJavaScriptFile writes exactly
\* ceil(encoded_length / 800000) chunk files, each carrying at most 800000
\* encoded characters; an encoding no longer than one segment gives exactly
\* one chunk, with index 0.
C4_ChunkCount ==
  (JsWritten /\ bundleBytes > 0) =>
    LET len == EncodedLength(bundleBytes)
    IN /\ Cardinality(WrittenChunks) = CeilDiv(len, 800000)
       /\ Len(chunks) = CeilDiv(len, 800000)
       /\ \A f \in WrittenChunks : chunkFiles[f].len <= 800000
       /\ \A k \in 1..Len(chunks) : chunks[k] >= 1 /\ chunks[k] <= 800000
       /\ len <= 800000 => WrittenChunks = {0}

\* C4 witness: a run wrote the chunks of an encoding that is an exact
\* multiple of the segment size
C4_Witness ==
  /\ JsWritten
  /\ Len(chunks) = 5
  /\ EncodedLength(bundleBytes) = 5 * 800000

\* C5: every chunk file written by generateJavaScriptFile (header line and
\* export line with its slice) is strictly smaller than the host ceiling of
\* 1,000,000 bytes, for every bundle size and chunk index.
C5_ChunkFileBelowCeiling ==
  JsWritten => \A f \in WrittenChunks : chunkFiles[f].bytes < HostCeiling

\* C5 witness: a bundle several times the ceiling was written as full
\* segments, each file larger than its 800000 characters of payload
C5_Witness ==
  /\ JsWritten
  /\ bundleBytes > 2 * HostCeiling
  /\ \E f \in WrittenChunks : chunkFiles[f].len = chunkSize
                              /\ chunkFiles[f].bytes > chunkSize

\* C6: for N chunks the chunk files and the exported constants are numbered
\* exactly 0..N-1, the main script imports each of them exactly once, and its
\* concatenation names chunk0 .. chunk(N-1) once each in ascending order.
C6_ContiguousIndices ==
  JsWritten =>
    LET n == Len(chunks)
    IN /\ WrittenChunks = 0..(n - 1)
       /\ \A f \in WrittenChunks : chunkFiles[f].const = f
       /\ Len(mainScript.imports) = n
       /\ \A k \in 1..n : /\ mainScript.imports[k].from = k - 1
                          /\ mainScript.imports[k].const = k - 1
                          /\ mainScript.imports[k].from \in WrittenChunks
       /\ Len(mainScript.concat) = n
       /\ \A k \in 1..n : mainScript.concat[k] = k - 1

\* C6 witness: a main script over several chunks
C6_Witness ==
  /\ JsWritten
  /\ Len(chunks) >= 3
  /\ Len(mainScript.concat) >= 3

\* C8: compileReactComponents and compileStyles remove temp-build and
\* temp-css-build before their promise settles, on every exit path, so that
\* no temporary directory is on disk unless its stage is running.
C8_TempDirsRemoved ==
  /\ genPc # "webpackReact" => ~tempBuild
  /\ genPc # "webpackStyles" => ~tempCssBuild

\* C27: after any sequence of successful generate() runs into the same
\* component directory, the chunk files in the directory are exactly the
\* files numbered 0..N-1 of the N chunks of the most recent bundle, and
\* exactly those the main script imports; none is left from an earlier,
\* larger bundle.
C27_NoStaleChunkFiles ==
  (genPc = "done" /\ result = "success" /\ failedRuns = 0) =>
    /\ DOMAIN chunkFiles = 0..(Len(chunks) - 1)
    /\ DOMAIN chunkFiles = {mainScript.imports[k].from : k \in 1..Len(mainScript.imports)}

\* C12: a run in which compileReactComponents rejected ends with generate()
\* resolved to success=false carrying the message of the error the stage
\* rejected with, and has written no chunk file, main script, markup
\* template, metadata manifest or style file.
C12_ReactRejectionReported ==
  (genPc = "done" /\ ~reactDone
   /\ thrown \in {"bundle build failed", "bundle output not readable"}) =>
    /\ result = "failure"
    /\ errorMessage = thrown
    /\ written = {}

\* C12 witness: the bundle build failed in a run that followed a complete one,
\* whose files are still on disk
C12_Witness ==
  /\ genPc = "done"
  /\ runs = 2
  /\ thrown = "bundle build failed"
  /\ result = "failure"
  /\ mainScript.present

\* C15: within a run of generate() no chunk file, main script, markup
\* template, metadata manifest or style file is written before both
\* compileReactComponents and compileStyles have completed successfully.
C15_NoWriteBeforeCompiled == written # {} => (reactDone /\ stylesDone)

\* C15 witness: a second run has written its script files after both
\* compilations, over the files of the first
C15_Witness == runs = 2 /\ JsWritten /\ reactDone /\ stylesDone

\* =========================================================================
\* Auxiliary components: generateReactImport, generateReactDOMImport and
\* generateReactImports, which wrap the React and ReactDOM production
\* libraries as components of their own
\* =========================================================================

\* the file system operation of a call that throws, if any
AuxFaults == {"none", "mkdir", "readLib", "writeJs", "writeHtml", "writeCss", "writeMeta"}

\* the environment of one call: whether the production library is under
\* node_modules, and the failing operation (reading needs the file to exist)
AuxEnvs == {env \in [libExists : BOOLEAN, failAt : AuxFaults] :
              env.failAt = "readLib" => env.libExists}

\* if (fs.existsSync(path)) readFileSync(path) else the stub, with a warning
ReadLibraryUnchecked(libExists, readThrows) ==
  IF libExists /\ ~readThrows THEN "library source" ELSE "throw"
ReadLibrary(libExists, readThrows) ==
  IF ~libExists THEN "stub" ELSE IF readThrows THEN "throw" ELSE "library source"

LibraryStub(comp) ==
  IF comp = "react" THEN "// React library not found" ELSE "// ReactDOM library not found"

\* jsContent: a comment, the library text, a comment, the default export
JsContent(comp, library) ==
  IF comp = "react"
  THEN <<"// Execute the React library code", library,
         "// Export React instance", "export default window.React;">>
  ELSE <<"// Execute the ReactDOM library code", library,
         "// Export ReactDOM instance", "export default window.ReactDOM;">>

\* generateReactJSFile / generateReactDOMJSFile: the whole body is a try
\* whose catch logs the error and returns normally
GenerateJSFile(comp, env) ==
  LET lib == ReadLibrary(env.libExists, env.failAt = "readLib")
      failed == lib = "throw" \/ env.failAt = "writeJs"
  IN [written |-> ~failed,
      content |-> IF failed THEN <<>>
                  ELSE JsContent(comp, IF lib = "stub" THEN LibraryStub(comp) ELSE lib),
      warned |-> lib = "stub",
      logged |-> failed]

\* generateReactImport / generateReactDOMImport on a component directory:
\* createOutputDirectory and the mkdirs, then the script, markup, style and
\* metadata files in this order; an exception that reaches the outer try
\* gives success=false with its message
GenerateAux(comp, env, dir) ==
  LET started == env.failAt # "mkdir"
      js == GenerateJSFile(comp, env)
      htmlW == started /\ env.failAt # "writeHtml"
      cssW == htmlW /\ env.failAt # "writeCss"
      metaW == cssW /\ env.failAt # "writeMeta"
  IN [dir |-> [js |-> IF started /\ js.written THEN js.content ELSE dir.js,
               html |-> dir.html \/ htmlW,
               css |-> dir.css \/ cssW,
               meta |-> dir.meta \/ metaW],
      call |-> [result |-> IF metaW THEN "success" ELSE "failure",
                error |-> IF metaW THEN "none" ELSE env.failAt,
                warned |-> started /\ js.warned,
                logged |-> started /\ js.logged,
                fault |-> env.failAt,
                libExists |-> env.libExists,
                escaped |-> FALSE,
                wrote |-> {f \in {"js", "html", "css", "meta"} :
                             \/ f = "js" /\ started /\ js.written
                             \/ f = "html" /\ htmlW
                             \/ f = "css" /\ cssW
                             \/ f = "meta" /\ metaW}]]

\* the result object a call returns
AuxResult(comp, call) == [componentName |-> comp, success |-> call.result = "success"]

InitAux ==
  /\ AuxIdle
  /\ MultiIdle
  /\ CliIdle
  /\ StyIdle
  /\ AppIdle
  /\ EncIdle
  /\ GenIdle
  /\ RtIdle

GenerateReactImport(env) ==
  /\ auxCalls < MaxAuxCalls
  /\ auxCalls' = auxCalls + 1
  /\ \E out \in {GenerateAux("react", env, auxDisk["react"])} :
       /\ auxDisk' = [auxDisk EXCEPT !["react"] = out.dir]
       /\ auxLast' = [auxLast EXCEPT !["react"] = out.call]
  /\ UNCHANGED importResults
  /\ UNCHANGED exceptAux

GenerateReactDOMImport(env) ==
  /\ auxCalls < MaxAuxCalls
  /\ auxCalls' = auxCalls + 1
  /\ \E out \in {GenerateAux("reactdom", env, auxDisk["reactdom"])} :
       /\ auxDisk' = [auxDisk EXCEPT !["reactdom"] = out.dir]
       /\ auxLast' = [auxLast EXCEPT !["reactdom"] = out.call]
  /\ UNCHANGED importResults
  /\ UNCHANGED exceptAux

\* generateReactImports: both calls, one after the other, results pushed in
\* this order
GenerateReactImports(envReact, envDom) ==
  /\ auxCalls < MaxAuxCalls
  /\ auxCalls' = auxCalls + 1
  /\ \E r \in {GenerateAux("react", envReact, auxDisk["react"])} :
     \E d \in {GenerateAux("reactdom", envDom, auxDisk["reactdom"])} :
       /\ auxDisk' = [auxDisk EXCEPT !["react"] = r.dir, !["reactdom"] = d.dir]
       /\ auxLast' = [auxLast EXCEPT !["react"] = r.call, !["reactdom"] = d.call]
       /\ importResults' = <<AuxResult("react", r.call), AuxResult("reactdom", d.call)>>
  /\ UNCHANGED exceptAux

NextAux ==
  \/ \E env \in AuxEnvs : GenerateReactImport(env)
  \/ \E env \in AuxEnvs : GenerateReactDOMImport(env)
  \/ \E envReact \in AuxEnvs, envDom \in AuxEnvs : GenerateReactImports(envReact, envDom)

SpecAux == InitAux /\ [][NextAux]_vars

\* C13: generate(), generateReactImport() and generateReactDOMImport() never
\* throw or reject; every failure inside a build stage comes back as a result
\* with success=false and an error message, and every run without failure
\* returns success=true.
C13_FailuresReturned ==
  /\ genPc = "done" =>
       /\ thrown # "none" => (result = "failure" /\ errorMessage # "none")
       /\ thrown = "none" => result = "success"
  /\ \A c \in AuxComponents : auxLast[c].result # "none" =>
       /\ ~auxLast[c].escaped
       /\ auxLast[c].fault # "none" =>
            (auxLast[c].result = "failure" /\ auxLast[c].error # "none")
       /\ auxLast[c].fault = "none" => auxLast[c].result = "success"

\* C30: a success=true result of generateReactImport or
\* generateReactDOMImport means that the script, the markup, the style and
\* the metadata file of the component were all written during that call; a
\* failure to read the library or to write the script gives success=false.
C30_SuccessMeansFourFiles ==
  \A c \in AuxComponents :
    /\ auxLast[c].result = "success" => auxLast[c].wrote = {"js", "html", "css", "meta"}
    /\ auxLast[c].fault \in {"readLib", "writeJs"} => auxLast[c].result = "failure"

\* C17: when the production library file is missing and nothing else fails,
\* generateReactImport (generateReactDOMImport) returns success=true without
\* throwing, warns, and leaves a script module made of the placeholder stub
\* in place of the library source, followed by the default export.
C17_MissingLibraryStub ==
  \A c \in AuxComponents :
    (auxLast[c].result # "none" /\ ~auxLast[c].libExists /\ auxLast[c].fault = "none") =>
      /\ auxLast[c].result = "success"
      /\ ~auxLast[c].escaped
      /\ auxLast[c].warned
      /\ "js" \in auxLast[c].wrote
      /\ auxDisk[c].js = JsContent(c, LibraryStub(c))
      /\ auxDisk[c].js[Len(auxDisk[c].js)] \in {"export default window.React;",
                                               "export default window.ReactDOM;"}

\* C17 witness: the ReactDOM library was missing in a call that followed one
\* which had embedded the library
C17_Witness ==
  /\ auxCalls = 2
  /\ auxLast["reactdom"].result = "success"
  /\ ~auxLast["reactdom"].libExists
  /\ auxLast["reactdom"].warned
  /\ auxDisk["reactdom"].js = JsContent("reactdom", "// ReactDOM library not found")
  /\ auxDisk["react"].js = JsContent("react", "library source")

\* =========================================================================
\* generateMultiple: one generate() after the other, each on a generator of
\* its own for the requested lwcName, all into the same output directory
\* =========================================================================

\* the lists of components of one call
Requests == SeqsUpTo(Names, MaxRuns)

\* for (const component of components): whether the loop has another turn
\* once `done` results were pushed, the last of them with success = ok
MoreComponentsFailFast(done, n, ok) == done < n /\ ok
MoreComponents(done, n, ok) == done < n

\* new LWCWrapperGenerator({ componentName: component.lwcName, ... }): the
\* component directory the generator works in becomes the one of that name
SwitchDir(name) ==
  /\ componentName' = name
  /\ IF name = componentName
     THEN UNCHANGED <<chunkFiles, mainScript, otherDirs>>
     ELSE /\ chunkFiles' = otherDirs[name].chunkFiles
          /\ mainScript' = otherDirs[name].mainScript
          /\ otherDirs' = [otherDirs EXCEPT ![componentName] =
                             [chunkFiles |-> chunkFiles, mainScript |-> mainScript]]

\* one turn of the loop up to its await: a generator for the next component
\* and the synchronous part of its generate()
MultiTurn(name, before, templateExists) ==
  /\ SwitchDir(name)
  /\ GenerateSync(templateExists)
  /\ attempted' = Append(before, name)
  /\ multiPc' = "awaiting"

InitMulti == InitGen

\* generateMultiple(components) up to the first await, or to its return when
\* the list is empty
GenerateMultiple(components, templateExists) ==
  /\ multiPc \in {"idle", "returned"}
  /\ genPc \in {"idle", "done"}
  /\ runs + Len(components) <= MaxRuns
  /\ requested' = components
  /\ multiResults' = <<>>
  /\ IF MoreComponents(0, Len(components), TRUE)
     THEN MultiTurn(components[1], <<>>, templateExists)
     ELSE /\ attempted' = <<>>
          /\ multiPc' = "returned"
          /\ UNCHANGED <<genVars, componentName, otherDirs>>
  /\ UNCHANGED exceptMulti

\* the continuation of generateMultiple when the awaited generate() has
\* resolved: push the result, then the next turn or the return
MultiResume(templateExists) ==
  /\ multiPc = "awaiting"
  /\ genPc = "done"
  /\ multiResults' = Append(multiResults,
                            [componentName |-> componentName,
                             success |-> result = "success"])
  /\ IF MoreComponents(Len(multiResults) + 1, Len(requested), result = "success")
     THEN MultiTurn(requested[Len(multiResults) + 2], attempted, templateExists)
     ELSE /\ multiPc' = "returned"
          /\ UNCHANGED <<genVars, attempted, componentName, otherDirs>>
  /\ UNCHANGED requested
  /\ UNCHANGED exceptMulti

\* what the environment does in the states of this specification
MultiBundleSizes == {150000, 1200001}
MultiAuxEnvs == {env \in AuxEnvs : env.libExists /\ env.failAt \in {"none", "mkdir"}}

NextMulti ==
  \/ \E c \in Requests, t \in BOOLEAN : GenerateMultiple(c, t)
  \/ \E t \in BOOLEAN : MultiResume(t)
  \/ \E o \in WebpackOutcomes, b \in MultiBundleSizes : ReactWebpackDone(o, b)
  \/ \E f \in BOOLEAN : CompileStylesStart(f)
  \/ \E o \in WebpackOutcomes : StylesWebpackDone(o)
  \/ WriteJavaScript
  \/ \E k \in 0..3 : GenerateDescriptors(k)
  \/ \E envReact \in MultiAuxEnvs, envDom \in MultiAuxEnvs :
       GenerateReactImports(envReact, envDom)

SpecMulti == InitMulti /\ [][NextMulti]_vars

\* C16: generateMultiple returns exactly one result per requested component,
\* in request order, having run generate() for every one of them, those after
\* a failed one included; generateReactImports attempts both the React and
\* the ReactDOM component and returns two results, also when the first fails.
C16_FailureDoesNotStopOthers ==
  /\ multiPc = "returned" =>
       /\ attempted = requested
       /\ Len(multiResults) = Len(requested)
       /\ \A k \in 1..Len(requested) : multiResults[k].componentName = requested[k]
  /\ importResults # <<>> =>
       /\ Len(importResults) = 2
       /\ importResults[1].componentName = "react"
       /\ importResults[2].componentName = "reactdom"
       /\ \A c \in AuxComponents : auxLast[c].result # "none"

\* C16 witness: of two requested components the first failed and the second
\* was generated, and of the two auxiliary components the first failed and
\* the second was generated
C16_Witness ==
  /\ multiPc = "returned"
  /\ Len(multiResults) = 2
  /\ ~multiResults[1].success
  /\ multiResults[2].success
  /\ Len(importResults) = 2
  /\ ~importResults[1].success
  /\ importResults[2].success

\* =========================================================================
\* compileStyles on the content of the stylesheets: findCSSFiles over the
\* source directory, the webpack callback and its fallback, which reads the
\* stylesheets one system call at a time while another process may delete
\* files
\* =========================================================================

File(path, css, text) ==
  [path |-> path, isDirectory |-> FALSE, css |-> css, text |-> text, children |-> <<>>]
Dir(path, css, children) ==
  [path |-> path, isDirectory |-> TRUE, css |-> css, text |-> <<>>, children |-> children]

\* source directories, each a listing in readdirSync order; css says whether
\* the name ends with '.css', text is the content of a file line by line
SrcTrees ==
  { <<>>,
    << File("App.js", FALSE, <<"import">>) >>,
    << File("App.css", TRUE, <<".app{}">>) >>,
    << File("App.css", TRUE, <<".app{}", ".app a{}">>),
       Dir("components", FALSE,
           << File("components/Button.css", TRUE, <<".btn{}">>),
              File("components/Button.js", FALSE, <<"export">>) >>),
       File("index.css", TRUE, <<>>) >>,
    << Dir("legacy.css", TRUE, << File("legacy.css/old.css", TRUE, <<".old{}">>) >>),
       File("z.css", TRUE, <<"z{}">>) >> }

\* the files of a listing, directories descended
RECURSIVE AllFiles(_)
AllFiles(dir) ==
  IF dir = <<>> THEN {}
  ELSE (IF Head(dir).isDirectory THEN AllFiles(Head(dir).children) ELSE {Head(dir)})
       \cup AllFiles(Tail(dir))

\* fs.readFileSync(path, 'utf8') of a file that exists
ReadFile(path) == (CHOOSE f \in AllFiles(srcTree) : f.path = path).text

\* findCSSFiles(dir, fileList): the entries in listing order, a directory
\* descended where it stands, a file pushed when its name ends with '.css'
RECURSIVE FindCSSFiles(_, _, _)
FindCSSFiles(dir, onDisk, fileList) ==
  IF dir = <<>> THEN fileList
  ELSE LET file == Head(dir)
           after == IF file.isDirectory
                      THEN FindCSSFiles(file.children, onDisk, fileList)
                    ELSE IF file.path \notin onDisk THEN fileList
                    ELSE IF file.css THEN Append(fileList, file.path)
                    ELSE fileList
       IN FindCSSFiles(Tail(dir), onDisk, after)

\* cssContent += fs.readFileSync(cssFile, 'utf8') + '\n'
AppendFileBare(content, text) == content \o text
AppendFile(content, text) == content \o text \o <<"\n">>

\* every text followed by a newline / the texts with a newline between them
RECURSIVE Terminated(_)
Terminated(texts) ==
  IF texts = <<>> THEN <<>> ELSE Head(texts) \o <<"\n">> \o Terminated(Tail(texts))
RECURSIVE Separated(_)
Separated(texts) ==
  IF texts = <<>> THEN <<>>
  ELSE IF Len(texts) = 1 THEN Head(texts)
  ELSE Head(texts) \o <<"\n">> \o Separated(Tail(texts))

\* the elements of a sequence that are in a set, in order
RECURSIVE Keep(_, _)
Keep(seq, S) ==
  IF seq = <<>> THEN <<>>
  ELSE IF Head(seq) \in S THEN <<Head(seq)>> \o Keep(Tail(seq), S)
  ELSE Keep(Tail(seq), S)

InitSty ==
  /\ srcTree \in SrcTrees
  /\ exists = {f.path : f \in AllFiles(srcTree)}
  /\ styPc = "idle"
  /\ imported = <<>>
  /\ discovered = <<>>
  /\ cursor = 0
  /\ cssContent = <<>>
  /\ styResult = "none"
  /\ styError = "none"
  /\ omitted = {}
  /\ deletes = 0
  /\ deletedLate = {}
  /\ EncIdle
  /\ GenIdle
  /\ RtIdle
  /\ AuxIdle
  /\ MultiIdle
  /\ CliIdle
  /\ AppIdle

\* compileStyles up to the call of webpack: the stylesheets found are the
\* imports of the entry file
StylesExecutor ==
  /\ styPc = "idle"
  /\ imported' = FindCSSFiles(srcTree, exists, <<>>)
  /\ styPc' = "webpack"
  /\ UNCHANGED <<srcTree, exists, discovered, cursor, cssContent, styResult, styError,
                 omitted, deletes, deletedLate>>
  /\ UNCHANGED exceptSty

\* the fallback loop moves to the next file, or past the last one to
\* resolve(cssContent)
FallbackAdvance ==
  IF cursor < Len(discovered)
  THEN /\ cursor' = cursor + 1
       /\ styPc' = "check"
       /\ UNCHANGED styResult
  ELSE /\ cursor' = cursor
       /\ styPc' = "done"
       /\ styResult' = "resolved"

\* the webpack callback up to its first look at a stylesheet: an error
\* rejects; extracted-styles.css, if webpack produced it, is the result;
\* otherwise the fallback finds the stylesheets again
StylesCallback(outcome, extracted) ==
  /\ styPc = "webpack"
  /\ extracted => imported # <<>>
  /\ IF outcome = "webpackError"
     THEN /\ styPc' = "done"
          /\ styResult' = "rejected"
          /\ styError' = "webpackError"
          /\ UNCHANGED <<discovered, cursor, cssContent>>
     ELSE IF extracted
     THEN /\ styPc' = "done"
          /\ styResult' = "resolved"
          /\ cssContent' = <<"extracted-styles.css">>
          /\ UNCHANGED <<discovered, cursor, styError>>
     ELSE \E found \in {FindCSSFiles(srcTree, exists, <<>>)} :
            /\ discovered' = found
            /\ cssContent' = <<>>
            /\ cursor' = IF found = <<>> THEN 0 ELSE 1
            /\ styPc' = IF found = <<>> THEN "done" ELSE "check"
            /\ styResult' = IF found = <<>> THEN "resolved" ELSE styResult
            /\ UNCHANGED styError
  /\ UNCHANGED <<srcTree, exists, imported, omitted, deletes, deletedLate>>
  /\ UNCHANGED exceptSty

\* if (fs.existsSync(cssFile))
FallbackCheck ==
  /\ styPc = "check"
  /\ IF discovered[cursor] \in exists
     THEN /\ styPc' = "read"
          /\ UNCHANGED <<cursor, styResult, omitted>>
     ELSE /\ omitted' = omitted \cup {discovered[cursor]}
          /\ FallbackAdvance
  /\ UNCHANGED <<srcTree, exists, imported, discovered, cssContent, styError, deletes,
                 deletedLate>>
  /\ UNCHANGED exceptSty

\* fs.readFileSync(cssFile, 'utf8'): ENOENT for a file that is gone, caught
\* by the catch of the callback, which rejects
FallbackRead ==
  /\ styPc = "read"
  /\ IF discovered[cursor] \in exists
     THEN /\ cssContent' = AppendFile(cssContent, ReadFile(discovered[cursor]))
          /\ FallbackAdvance
          /\ UNCHANGED styError
     ELSE /\ styPc' = "done"
          /\ styResult' = "rejected"
          /\ styError' = "ENOENT"
          /\ UNCHANGED <<cursor, cssContent>>
  /\ UNCHANGED <<srcTree, exists, imported, discovered, omitted, deletes, deletedLate>>
  /\ UNCHANGED exceptSty

\* another process deletes a file of the source directory; deletedLate keeps
\* the discovered files deleted before the fallback has read them
DeleteFile(path) ==
  /\ styPc # "done"
  /\ deletes < MaxDeletes
  /\ path \in exists
  /\ exists' = exists \ {path}
  /\ deletes' = deletes + 1
  /\ deletedLate' = IF /\ styPc \in {"check", "read"}
                       /\ \E k \in cursor..Len(discovered) : discovered[k] = path
                    THEN deletedLate \cup {path} ELSE deletedLate
  /\ UNCHANGED <<srcTree, styPc, imported, discovered, cursor, cssContent, styResult,
                 styError, omitted>>
  /\ UNCHANGED exceptSty

NextSty ==
  \/ StylesExecutor
  \/ \E o \in {"ok", "webpackError"}, x \in BOOLEAN : StylesCallback(o, x)
  \/ FallbackCheck
  \/ FallbackRead
  \/ \E path \in exists : DeleteFile(path)

SpecSty == InitSty /\ [][NextSty]_vars

\* the fallback has resolved
FallbackResolved == styPc = "done" /\ styResult = "resolved" /\ cssContent # <<"extracted-styles.css">>

\* C18 as stated: the fallback resolves to the contents of the discovered
\* stylesheets in findCSSFiles order with a single newline between
\* consecutive files, and to the empty string when there is no stylesheet.
C18_NewlineSeparated ==
  (FallbackResolved /\ omitted = {}) =>
    cssContent = Separated([k \in 1..Len(discovered) |-> ReadFile(discovered[k])])

\* C18 amended: the fallback resolves to the contents, in findCSSFiles order,
\* of the discovered stylesheets that exist when the loop reaches them, each
\* followed by a single newline (the last one too), and to the empty string
\* when there is no stylesheet.
C18_NewlineTerminated ==
  FallbackResolved =>
    LET kept == Keep(discovered, {d \in Range(discovered) : d \notin omitted})
    IN /\ cssContent = Terminated([k \in 1..Len(kept) |-> ReadFile(kept[k])])
       /\ discovered = <<>> => cssContent = <<>>

\* C18 witness: three stylesheets, one of them in a subdirectory listed
\* between the other two and one of them empty, were concatenated
C18_Witness ==
  /\ FallbackResolved
  /\ discovered = <<"App.css", "components/Button.css", "index.css">>
  /\ cssContent = <<".app{}", ".app a{}", "\n", ".btn{}", "\n", "\n">>

\* C19: in the fallback, a discovered stylesheet deleted by another process
\* at any point between its discovery and its read, the moment between the
\* existence check and the read included, is left out silently and
\* compileStyles resolves with the contents of the other files.
C19_DeletionTolerated ==
  (styPc = "done" /\ deletedLate # {}) => styResult = "resolved"

\* =========================================================================
\* Command line (scripts/cli.js): one process per run, the output directory
\* and the temporary directories outlive it
\* =========================================================================

Flags == {"--react", "--reactdom", "--all", "--help", "--version", "--unknown"}

\* the command lines: a set of flags and the value of --name
CliArgs == [flags : SUBSET Flags, name : Names]

\* parseArgs and the chain of tests of run(): an unknown option exits in
\* parseArgs, then help, version, --react, --reactdom, --all, and the wrapper
\* by default
CliMode(args) ==
  IF "--unknown" \in args.flags THEN "unknownOption"
  ELSE IF "--help" \in args.flags THEN "help"
  ELSE IF "--version" \in args.flags THEN "version"
  ELSE IF "--react" \in args.flags THEN "react"
  ELSE IF "--reactdom" \in args.flags THEN "reactdom"
  ELSE IF "--all" \in args.flags THEN "all"
  ELSE "wrapper"

\* the success property run() reads from what generate() returned: generate
\* is async and is not awaited, so the value is a pending or resolved Promise,
\* which has no such property
PromiseSuccess == "undefined"

\* if (!result.success) process.exit(1)
ExitsWithFailure(success) == success \in {"undefined", "false"}

InitCli == InitGen

\* one run of cli.js from parseArgs to the end of run()
CliRun(args, templateExists, envReact, envDom) ==
  /\ cliPc = "none"
  /\ cliRuns < MaxCliRuns
  /\ cliRuns' = cliRuns + 1
  /\ cliPc' = "exited"
  /\ \E mode \in {CliMode(args)} :
       CASE mode \in {"unknownOption", "help", "version"} ->
              /\ cliLast' = [mode |-> mode,
                             exitCode |-> IF mode = "unknownOption" THEN 1 ELSE 0,
                             imports |-> FALSE]
              /\ UNCHANGED <<genVars, auxVars, componentName, otherDirs>>
         [] mode \in {"react", "reactdom"} ->
              \E out \in {GenerateAux(mode, IF mode = "react" THEN envReact ELSE envDom,
                                       auxDisk[mode])} :
                /\ auxDisk' = [auxDisk EXCEPT ![mode] = out.dir]
                /\ auxLast' = [auxLast EXCEPT ![mode] = out.call]
                /\ cliLast' = [mode |-> mode,
                               exitCode |-> IF ExitsWithFailure(IF out.call.result = "success"
                                                                 THEN "true" ELSE "false")
                                            THEN 1 ELSE 0,
                               imports |-> FALSE]
                /\ UNCHANGED <<genVars, auxCalls, importResults, componentName, otherDirs>>
         [] mode \in {"all", "wrapper"} ->
              /\ SwitchDir(args.name)
              /\ GenerateSync(templateExists)
              /\ IF ExitsWithFailure(PromiseSuccess)
                 THEN /\ cliLast' = [mode |-> mode, exitCode |-> 1, imports |-> FALSE]
                      /\ UNCHANGED auxVars
                 ELSE /\ cliLast' = [mode |-> mode, exitCode |-> 0,
                                     imports |-> mode = "all"]
                      /\ IF mode = "all"
                         THEN \E r \in {GenerateAux("react", envReact, auxDisk["react"])} :
                              \E d \in {GenerateAux("reactdom", envDom,
                                                    auxDisk["reactdom"])} :
                                /\ auxDisk' = [auxDisk EXCEPT !["react"] = r.dir,
                                                              !["reactdom"] = d.dir]
                                /\ auxLast' = [auxLast EXCEPT !["react"] = r.call,
                                                              !["reactdom"] = d.call]
                                /\ importResults' = <<AuxResult("react", r.call),
                                                      AuxResult("reactdom", d.call)>>
                                /\ UNCHANGED auxCalls
                         ELSE UNCHANGED auxVars
  /\ UNCHANGED <<multiPc, requested, attempted, multiResults>>
  /\ UNCHANGED <<encVars, rtVars, styVars, appVars>>

\* the process is gone: what generate() held in memory, a pending webpack
\* run included, is lost; the files and directories stay as they are
ProcessEnds ==
  /\ cliPc = "exited"
  /\ cliPc' = "none"
  /\ genPc' = "idle"
  /\ bundleBytes' = 0
  /\ reactDone' = FALSE
  /\ stylesDone' = FALSE
  /\ chunks' = <<>>
  /\ written' = {}
  /\ result' = "none"
  /\ thrown' = "none"
  /\ errorMessage' = "none"
  /\ UNCHANGED <<runs, tempBuild, tempCssBuild, chunkFiles, mainScript, failedRuns>>
  /\ UNCHANGED <<cliRuns, cliLast>>
  /\ UNCHANGED <<encVars, rtVars, auxVars, multiVars, styVars, appVars>>

NextCli ==
  \/ \E args \in CliArgs, t \in BOOLEAN, envReact \in AuxEnvs, envDom \in AuxEnvs :
       CliRun(args, t, envReact, envDom)
  \/ ProcessEnds

SpecCli == InitCli /\ [][NextCli]_vars

\* C14: a run of the command line with --all in which the wrapper generation
\* does not fail generates the React and the ReactDOM auxiliary components
\* afterwards and does not exit with a failure status.
C14_AllModeGeneratesAuxiliaries ==
  (cliPc = "exited" /\ cliLast.mode = "all" /\ thrown = "none") =>
    (cliLast.exitCode = 0 /\ cliLast.imports)

\* C28: a run of the command line in the default wrapper mode exits with a
\* failure status if and only if generate() finished with success=false, and
\* it neither reports a failure nor exits before the asynchronous generation
\* has completed.
C28_WrapperModeAwaitsGeneration ==
  (cliPc = "exited" /\ cliLast.mode = "wrapper") =>
    /\ genPc = "done"
    /\ cliLast.exitCode = 1 <=> result = "failure"

\* =========================================================================
\* generate-app (scripts/generate-app.js): main() runs its commands one after
\* the other with execSync
\* =========================================================================

\* a character of the component name: a-z, A-Z, 0-9, anything else
CharClasses == {"lower", "upper", "digit", "other"}

\* argv: nothing, --help first, or a first argument taken as the component
\* name; --deploy and --open anywhere
AppArgv ==
  {NoAppArgs}
  \cup [kind : {"help"}, name : {<<>>}, deploy : BOOLEAN, open : BOOLEAN]
  \cup [kind : {"name"}, name : SeqsUpTo(CharClasses, MaxNameLen),
        deploy : BOOLEAN, open : BOOLEAN]

\* /^[a-z][a-zA-Z0-9]*$/.test(componentName)
ValidName(name) ==
  /\ Len(name) >= 1
  /\ name[1] = "lower"
  /\ \A k \in 2..Len(name) : name[k] \in {"lower", "upper", "digit"}

\* if (shouldOpen && shouldDeploy)
ShouldOpenAlone(deploy, open) == open
ShouldOpen(deploy, open) == deploy /\ open

\* the end of main(): the closing banner, exit status 0
AppFinish ==
  /\ appPc' = "exited"
  /\ appExit' = 0

\* process.exit(1)
AppExitFailure ==
  /\ appPc' = "exited"
  /\ appExit' = 1

InitApp ==
  /\ appPc = "idle"
  /\ appArgs = NoAppArgs
  /\ appRan = <<>>
  /\ appExit = -1
  /\ EncIdle
  /\ GenIdle
  /\ RtIdle
  /\ AuxIdle
  /\ MultiIdle
  /\ CliIdle
  /\ StyIdle

\* main() up to its first execSync: help, name validation, then the command
\* that generates the wrapper
AppMain(argv) ==
  /\ appPc = "idle"
  /\ appArgs' = argv
  /\ IF argv.kind \in {"none", "help"}
     THEN AppFinish
     ELSE IF ~ValidName(argv.name)
     THEN AppExitFailure
     ELSE /\ appPc' = "wrapper"
          /\ UNCHANGED appExit
  /\ UNCHANGED appRan
  /\ UNCHANGED exceptApp

\* generate-single.js returned: a failure stops main, otherwise cli.js --react
WrapperDone(ok) ==
  /\ appPc = "wrapper"
  /\ appRan' = Append(appRan, [cmd |-> "wrapper", ok |-> ok])
  /\ IF ok
     THEN /\ appPc' = "react"
          /\ UNCHANGED appExit
     ELSE AppExitFailure
  /\ UNCHANGED appArgs
  /\ UNCHANGED exceptApp

\* cli.js --react returned: its status is ignored, cli.js --reactdom is next
ReactDone(ok) ==
  /\ appPc = "react"
  /\ appRan' = Append(appRan, [cmd |-> "react", ok |-> ok])
  /\ appPc' = "reactdom"
  /\ UNCHANGED <<appArgs, appExit>>
  /\ UNCHANGED exceptApp

\* cli.js --reactdom returned: its status is ignored; deploy-cli.js is next
\* with --deploy
ReactDomDone(ok) ==
  /\ appPc = "reactdom"
  /\ appRan' = Append(appRan, [cmd |-> "reactdom", ok |-> ok])
  /\ IF appArgs.deploy
     THEN /\ appPc' = "deploy"
          /\ UNCHANGED appExit
     ELSE IF ShouldOpen(appArgs.deploy, appArgs.open)
     THEN /\ appPc' = "open"
          /\ UNCHANGED appExit
     ELSE AppFinish
  /\ UNCHANGED appArgs
  /\ UNCHANGED exceptApp

\* deploy-cli.js returned: a failure stops main, otherwise the org is opened
\* with --open
DeployDone(ok) ==
  /\ appPc = "deploy"
  /\ appRan' = Append(appRan, [cmd |-> "deploy", ok |-> ok])
  /\ IF ~ok
     THEN AppExitFailure
     ELSE IF ShouldOpen(appArgs.deploy, appArgs.open)
     THEN /\ appPc' = "open"
          /\ UNCHANGED appExit
     ELSE AppFinish
  /\ UNCHANGED appArgs
  /\ UNCHANGED exceptApp

\* sf org open returned: its status is ignored
OpenDone(ok) ==
  /\ appPc = "open"
  /\ appRan' = Append(appRan, [cmd |-> "open", ok |-> ok])
  /\ AppFinish
  /\ UNCHANGED appArgs
  /\ UNCHANGED exceptApp

NextApp ==
  \/ \E argv \in AppArgv : AppMain(argv)
  \/ \E ok \in BOOLEAN : WrapperDone(ok)
  \/ \E ok \in BOOLEAN : ReactDone(ok)
  \/ \E ok \in BOOLEAN : ReactDomDone(ok)
  \/ \E ok \in BOOLEAN : DeployDone(ok)
  \/ \E ok \in BOOLEAN : OpenDone(ok)

SpecApp == InitApp /\ [][NextApp]_vars

\* the commands main() has run, in order
AppCommands == [k \in 1..Len(appRan) |-> appRan[k].cmd]

\* the commands a complete run goes through, in order
AppOrder == <<"wrapper", "react", "reactdom", "deploy", "open">>

\* C24: generate-app runs name validation, wrapper generation, React and
\* ReactDOM generation, deploy and open in this order; an invalid component
\* name or a failed wrapper generation exits with status 1 before any later
\* step; a failed auxiliary generation stops nothing; deploy runs only with
\* --deploy; the org is opened only with --deploy and --open and after a
\* successful deploy.
C24_GenerateAppOrder ==
  /\ AppCommands = Keep(AppOrder, Range(AppCommands))
  /\ (appArgs.kind = "name" /\ ~ValidName(appArgs.name)) =>
       (appRan = <<>> /\ appPc = "exited" /\ appExit = 1)
  /\ (Len(appRan) >= 1 /\ ~appRan[1].ok) =>
       (Len(appRan) = 1 /\ appPc = "exited" /\ appExit = 1)
  /\ (appPc = "exited" /\ Len(appRan) >= 1 /\ appRan[1].ok) =>
       {"react", "reactdom"} \subseteq Range(AppCommands)
  /\ "deploy" \in Range(AppCommands) => appArgs.deploy
  /\ "open" \in Range(AppCommands) =>
       /\ appArgs.deploy /\ appArgs.open
       /\ \E k \in 1..Len(appRan) : appRan[k].cmd = "deploy" /\ appRan[k].ok

\* C24 witness: both auxiliary generations failed, and the run still
\* deployed and opened the org
C24_Witness ==
  /\ appPc = "exited"
  /\ appExit = 0
  /\ AppCommands = AppOrder
  /\ ~appRan[2].ok /\ ~appRan[3].ok

\* =========================================================================
\* Runtime bridge: renderedCallback and disconnectedCallback of the generated
\* component (templates/lwcWrapper.js with COMPILED_REACT_FUNC substituted)
\* =========================================================================

\* the statements of the try block that can complete or throw, in source order
MountStepsGuardEarly == <<"defineProcess", "atob", "newFunction", "scriptFunc",
                          "findFactory", "findContainer", "attachShadow", "createStyle",
                          "appendStyle", "createDiv", "appendDiv", "createElement",
                          "setHasRendered", "createRoot", "render">>
MountSteps == <<"defineProcess", "atob", "newFunction", "scriptFunc", "findFactory",
                "findContainer", "attachShadow", "createStyle", "appendStyle",
                "createDiv", "appendDiv", "createElement", "createRoot", "render",
                "setHasRendered">>

\* position of a statement in the try block
StepNumber == [s \in {MountSteps[k] : k \in 1..15} |->
                 CHOOSE k \in 1..15 : MountSteps[k] = s]
StepIndex(step) == StepNumber[step]

\* host calls that may throw for reasons outside the component
ThrowPoints == {"atob", "attachShadow", "appendStyle", "createElement", "createRoot",
                "render"}

\* the environment of an invocation that does not reach the try block's body
QuietEnv == [exec |-> "publish", container |-> TRUE, failAt |-> "none"]

\* the environment of one renderedCallback invocation: what executing the
\* bundle does (assigns window.ReactAppComponent, returns without assigning,
\* throws), whether the template holds the data-id="app" element, and the
\* host call that throws, if any
Envs == [exec : {"publish", "silent", "throw"},
         container : BOOLEAN,
         failAt : {"none"} \cup ThrowPoints]

\* the statements enclosed by the try block of their hook: the whole body of
\* the guarded branch of renderedCallback, and the unmount call
TryBlock == {MountSteps[k] : k \in 1..15} \cup {"unmount"}
InsideTryFromDecode(step) == step \in TryBlock \ {"defineProcess", "render", "unmount"}
InsideTry(step) == step \in TryBlock

\* module.rules of the bundle build: stylesheets go through css-loader and
\* then style-loader
CssLoaders == <<"style-loader", "css-loader">>

\* the components of the application import stylesheets
\* (import styles from './SimpleExample.module.css')
AppImportsStylesheet == TRUE

\* the runtime of style-loader appends a style element to document.head when
\* a stylesheet module of the bundle is evaluated
BundleInjectsStyles(importsCss) == importsCss /\ CssLoaders[1] = "style-loader"

\* if (!this._hasRendered)
RenderGuardOpen(i) == TRUE
RenderGuardLive(i) == ~live[i]
RenderGuardOnce(i) == calls[i] = 0
RenderGuard(i) == ~hasRendered[i]

\* if (this._reactInstance && this._reactDOMInstance), both set from the imports
LibsAvailableEither == React \/ ReactDOM
LibsAvailable == React /\ ReactDOM

\* if (!ReactAppComponent) throw
FactoryMissingIgnored(slot) == FALSE
FactoryMissing(slot) == slot = 0

\* if (!container) throw
ContainerMissing(env) == ~env.container

\* window.ReactAppComponent once scriptFunc has returned: the entry file of
\* the bundle of component i assigns it, any other bundle leaves the slot alone
SlotAfterExecute(i, env) ==
  IF env.exec = "publish" THEN i ELSE windowReactAppComponent

\* whether a statement of the try block throws in this invocation; attachShadow
\* throws NotSupportedError on an element that already hosts a shadow root
StepThrowsReattach(i, env, step) ==
  CASE step = "defineProcess" -> FALSE
    [] step = "scriptFunc" -> env.exec = "throw"
    [] step = "findFactory" -> FactoryMissing(SlotAfterExecute(i, env))
    [] step = "findContainer" -> ContainerMissing(env)
    [] step = "setHasRendered" -> FALSE
    [] OTHER -> env.failAt = step
StepThrows(i, env, step) ==
  CASE step = "defineProcess" -> FALSE
    [] step = "scriptFunc" -> env.exec = "throw"
    [] step = "findFactory" -> FactoryMissing(SlotAfterExecute(i, env))
    [] step = "findContainer" -> ContainerMissing(env)
    [] step = "attachShadow" -> shadowRoot[i] \/ env.failAt = "attachShadow"
    [] step = "setHasRendered" -> FALSE
    [] OTHER -> env.failAt = step

\* number of statements of the try block that complete before the first throw
Completed(i, env) ==
  LET throwing == {k \in 1..Len(MountSteps) : StepThrows(i, env, MountSteps[k])}
  IN IF throwing = {} THEN Len(MountSteps)
     ELSE (CHOOSE k \in throwing : \A m \in throwing : k <= m) - 1

Bump(f, i, cond) == [f EXCEPT ![i] = IF cond THEN @ + 1 ELSE @]

InitRt ==
  /\ React \in BOOLEAN
  /\ ReactDOM \in BOOLEAN
  /\ windowProcess = FALSE
  /\ windowReactAppComponent = 0
  /\ hasRendered = [i \in Inst |-> FALSE]
  /\ reactRoot = [i \in Inst |-> 0]
  /\ shadowRoot = [i \in Inst |-> FALSE]
  /\ live = [i \in Inst |-> FALSE]
  /\ mountedFactory = [i \in Inst |-> 0]
  /\ hooks = 0
  /\ calls = [i \in Inst |-> 0]
  /\ decodes = [i \in Inst |-> 0]
  /\ executes = [i \in Inst |-> 0]
  /\ mounts = [i \in Inst |-> 0]
  /\ noops = [i \in Inst |-> 0]
  /\ mountedAt = [i \in Inst |-> 0]
  /\ unmounts = [i \in Inst |-> 0]
  /\ last = [i \in Inst |-> NoHook]
  /\ documentStyles = FALSE
  /\ shadowStyles = [i \in Inst |-> FALSE]
  /\ EncIdle
  /\ GenIdle
  /\ ToolIdle

\* renderedCallback: it is async but holds no await, so it runs to completion
\* before any other hook. calls, decodes (atob called), executes (scriptFunc
\* called), mounts (render returned), noops, mountedAt and last record what
\* the invocation did; the other variables are the program's state.
RenderedCallback(i, env) ==
  /\ hooks < MaxHooks
  /\ (RenderGuard(i) /\ LibsAvailable) \/ env = QuietEnv
  /\ \E run \in {RenderGuard(i) /\ LibsAvailable} :
     \E n \in {IF run THEN Completed(i, env) ELSE 0} :
     \E slot \in {IF run /\ StepIndex("scriptFunc") <= n THEN SlotAfterExecute(i, env)
                  ELSE windowReactAppComponent} :
       LET did(step) == run /\ StepIndex(step) <= n
           called(step) == run /\ StepIndex(step) <= n + 1
       IN /\ hooks' = hooks + 1
          /\ calls' = Bump(calls, i, TRUE)
          /\ noops' = Bump(noops, i, ~RenderGuard(i))
          /\ windowProcess' = (windowProcess \/ did("defineProcess"))
          /\ decodes' = Bump(decodes, i, called("atob"))
          /\ executes' = Bump(executes, i, called("scriptFunc"))
          /\ windowReactAppComponent' = slot
          /\ documentStyles' = (documentStyles
                                 \/ (did("scriptFunc") /\ BundleInjectsStyles(AppImportsStylesheet)))
          /\ shadowRoot' = [shadowRoot EXCEPT ![i] = @ \/ did("attachShadow")]
          /\ shadowStyles' = [shadowStyles EXCEPT ![i] = @ \/ did("appendStyle")]
          /\ reactRoot' = [reactRoot EXCEPT
                             ![i] = IF did("createRoot") THEN calls[i] + 1 ELSE @]
          /\ live' = [live EXCEPT ![i] = @ \/ did("render")]
          /\ mountedFactory' = [mountedFactory EXCEPT
                                  ![i] = IF did("render") THEN slot ELSE @]
          /\ mounts' = Bump(mounts, i, did("render"))
          /\ hasRendered' = [hasRendered EXCEPT ![i] = @ \/ did("setHasRendered")]
          /\ mountedAt' = [mountedAt EXCEPT
                             ![i] = IF did("setHasRendered") THEN calls[i] + 1 ELSE @]
          /\ last' = [last EXCEPT ![i] =
                        [hook |-> "rendered",
                         done |-> SubSeq(MountSteps, 1, n),
                         failed |-> IF ~RenderGuard(i) THEN "none"
                                    ELSE IF ~LibsAvailable THEN "libsAbsent"
                                    ELSE IF n = Len(MountSteps) THEN "none"
                                    ELSE MountSteps[n + 1],
                         reported |-> RenderGuard(i)
                                      /\ (~LibsAvailable
                                          \/ (n < Len(MountSteps)
                                              /\ InsideTry(MountSteps[n + 1]))),
                         escaped |-> run /\ n < Len(MountSteps)
                                     /\ ~InsideTry(MountSteps[n + 1]),
                         container |-> run /\ env.container,
                         unmountInvoked |-> FALSE]]
  /\ UNCHANGED <<React, ReactDOM, unmounts>>
  /\ UNCHANGED <<encVars, genVars, toolVars>>

\* if (this._hasRendered && this._reactRoot)
UnmountGuard(i) == hasRendered[i] /\ reactRoot[i] # 0

\* disconnectedCallback: unmount the root inside a try/catch
DisconnectedCallback(i, unmountThrows) ==
  /\ hooks < MaxHooks
  /\ hooks' = hooks + 1
  /\ unmounts' = Bump(unmounts, i, UnmountGuard(i))
  /\ live' = [live EXCEPT ![i] = IF UnmountGuard(i) /\ ~unmountThrows THEN FALSE ELSE @]
  /\ last' = [last EXCEPT ![i] =
                [hook |-> "disconnected",
                 done |-> <<>>,
                 failed |-> IF UnmountGuard(i) /\ unmountThrows THEN "unmount" ELSE "none",
                 reported |-> UnmountGuard(i) /\ unmountThrows /\ InsideTry("unmount"),
                 escaped |-> UnmountGuard(i) /\ unmountThrows /\ ~InsideTry("unmount"),
                 container |-> FALSE,
                 unmountInvoked |-> UnmountGuard(i)]]
  /\ UNCHANGED <<React, ReactDOM, windowProcess, windowReactAppComponent, hasRendered,
                 reactRoot, shadowRoot, mountedFactory, calls, decodes, executes,
                 mounts, noops, mountedAt, documentStyles, shadowStyles>>
  /\ UNCHANGED <<encVars, genVars, toolVars>>

NextRt ==
  \/ \E i \in Inst, env \in Envs : RenderedCallback(i, env)
  \/ \E i \in Inst, t \in BOOLEAN : DisconnectedCallback(i, t)

SpecRt == InitRt /\ [][NextRt]_vars

\* C2 as stated: in every environment, N invocations of renderedCallback on
\* one instance give exactly one decode/execute/mount sequence and N-1 no-ops.
C2_ExactlyOneSequence ==
  \A i \in Inst : calls[i] >= 1 =>
    /\ decodes[i] = 1
    /\ executes[i] = 1
    /\ mounts[i] = 1
    /\ noops[i] = calls[i] - 1

\* C2 amended: N invocations of renderedCallback on one instance mount at most
\* once; every invocation after the one that mounted is a no-op that decodes
\* and executes nothing, and no invocation before it is a no-op; when the
\* first invocation mounts, there is exactly one decode/execute/mount sequence
\* and N-1 no-ops.
C2_IdempotentOnceMounted ==
  \A i \in Inst :
    /\ mounts[i] <= 1
    /\ hasRendered[i] =>
         /\ mounts[i] = 1
         /\ noops[i] = calls[i] - mountedAt[i]
         /\ decodes[i] <= mountedAt[i]
         /\ executes[i] <= mountedAt[i]
    /\ ~hasRendered[i] => noops[i] = 0
    /\ mountedAt[i] = 1 =>
         /\ decodes[i] = 1
         /\ executes[i] = 1
         /\ noops[i] = calls[i] - 1

\* C2 witness: an instance mounted on its first invocation and was invoked
\* twice more
C2_Witness ==
  \E i \in Inst : mountedAt[i] = 1 /\ calls[i] = 3 /\ noops[i] = 2

\* C7: whenever disconnectedCallback runs on an instance whose _reactRoot is
\* recorded, unmount is invoked on that root, also when render threw and
\* _hasRendered was never set.
C7_UnmountWheneverRootRecorded ==
  \A i \in Inst :
    (last[i].hook = "disconnected" /\ reactRoot[i] # 0) => last[i].unmountInvoked

\* C9: if React or ReactDOM is absent when renderedCallback runs, the attempt
\* is aborted: nothing is decoded or executed, window.process is not defined,
\* no shadow root is attached, the failure is reported, and _hasRendered stays
\* false and _reactRoot null.
C9_LibsAbsentAborts ==
  \A i \in Inst :
    (last[i].hook = "rendered" /\ ~(React /\ ReactDOM)) =>
      /\ last[i].done = <<>>
      /\ last[i].reported
      /\ decodes[i] = 0
      /\ executes[i] = 0
      /\ ~windowProcess
      /\ ~shadowRoot[i]
      /\ ~hasRendered[i]
      /\ reactRoot[i] = 0

\* C9 witness: renderedCallback ran twice with ReactDOM absent
C9_Witness ==
  \E i \in Inst : last[i].hook = "rendered" /\ React /\ ~ReactDOM /\ calls[i] = 2

\* C10: an attempt in which the bundle executed but window.ReactAppComponent
\* is absent, or the data-id="app" container is absent, ends as a reported
\* error: no shadow root is attached, no render root is created, render is not
\* called and _hasRendered stays false.
C10_MissingFactoryOrContainerFatal ==
  \A i \in Inst :
    (/\ last[i].hook = "rendered"
     /\ "scriptFunc" \in Range(last[i].done)
     /\ (windowReactAppComponent = 0 \/ ~last[i].container)) =>
      /\ last[i].failed \in {"findFactory", "findContainer"}
      /\ last[i].reported
      /\ {"attachShadow", "createRoot", "render"} \cap Range(last[i].done) = {}
      /\ reactRoot[i] # calls[i]
      /\ mountedAt[i] # calls[i]
      /\ ~hasRendered[i]

\* C10 witness: a bundle ran without publishing the factory and the attempt
\* stopped at the lookup
C10_Witness ==
  \E i \in Inst :
    /\ last[i].hook = "rendered"
    /\ "scriptFunc" \in Range(last[i].done)
    /\ windowReactAppComponent = 0
    /\ last[i].failed = "findFactory"

\* C10 witness of the other case: the factory was found, the container not
C10_WitnessContainer ==
  \E i \in Inst :
    /\ last[i].hook = "rendered"
    /\ windowReactAppComponent # 0
    /\ last[i].failed = "findContainer"

\* C11: no failure escapes a lifecycle hook: whatever throws during
\* renderedCallback or during the unmount of disconnectedCallback is caught
\* and reported inside the hook, and the hook returns normally to the host.
C11_NoFailureEscapes ==
  \A i \in Inst :
    /\ ~last[i].escaped
    /\ last[i].failed # "none" => last[i].reported

\* C11 witness: render threw on one instance and unmount threw on the other
C11_Witness ==
  /\ last[1].hook = "rendered" /\ last[1].failed = "render" /\ last[1].reported
  /\ last[2].hook = "disconnected" /\ last[2].failed = "unmount" /\ last[2].reported

\* C20: a mount appends the style element only to the shadow root, and no
\* step of the mount sequence, the execution of the compiled bundle included,
\* adds the application's styles to the host document.
C20_StylesOnlyInShadow == ~documentStyles

\* the statements of the mount sequence the claims name, in the order of the
\* source
NamedSteps == <<"atob", "scriptFunc", "findFactory", "findContainer", "attachShadow",
                "appendStyle", "createRoot", "render", "setHasRendered">>

\* C21: once an invocation of renderedCallback has set _hasRendered, every
\* later invocation on that instance is a no-op: no decoding, no bundle
\* execution, no attachShadow, no createRoot, no render, and _reactRoot is
\* the root recorded by the invocation that mounted.
C21_NoOpOnceMounted ==
  \A i \in Inst :
    (last[i].hook = "rendered" /\ mountedAt[i] # 0 /\ calls[i] > mountedAt[i]) =>
      /\ last[i].done = <<>>
      /\ last[i].failed = "none"
      /\ decodes[i] <= mountedAt[i]
      /\ executes[i] <= mountedAt[i]
      /\ mounts[i] = 1
      /\ reactRoot[i] = mountedAt[i]

\* C21 witness: the second invocation mounted and two more followed
C21_Witness ==
  \E i \in Inst :
    last[i].hook = "rendered" /\ mountedAt[i] = 2 /\ calls[i] = 4 /\ noops[i] = 2

\* C22: _hasRendered is true only if render was called without throwing on a
\* recorded root, so it implies a non-null _reactRoot, recorded by the very
\* invocation that set the guard; that invocation has decoded, executed,
\* looked up the factory and the container, attached the shadow root,
\* injected the style, created the root and rendered, in this order, before
\* it set the guard.
C22_GuardSetLast ==
  \A i \in Inst :
    /\ hasRendered[i] =>
         /\ reactRoot[i] # 0
         /\ reactRoot[i] = mountedAt[i]
         /\ mounts[i] = 1
         /\ shadowRoot[i] /\ shadowStyles[i]
    /\ (last[i].hook = "rendered" /\ calls[i] > 0 /\ mountedAt[i] = calls[i]) =>
         /\ Keep(last[i].done, Range(NamedSteps)) = NamedSteps
         /\ last[i].done[Len(last[i].done)] = "setHasRendered"

\* C22 witness: an instance mounted on its third invocation, after two
\* attempts that failed before attachShadow
C22_Witness ==
  \E i \in Inst :
    hasRendered[i] /\ mountedAt[i] = 3 /\ calls[i] = 3 /\ last[i].hook = "rendered"

C25_ShadowBlocksRetry ==
  [][\A i \in Inst :
       (shadowRoot[i] /\ ~hasRendered[i]) => (shadowRoot'[i] /\ ~hasRendered'[i])]_vars

\* C25 witness: render threw after attachShadow, and the retry stopped at
\* attachShadow
C25_Witness ==
  \E i \in Inst :
    /\ shadowRoot[i] /\ ~hasRendered[i]
    /\ calls[i] >= 2
    /\ last[i].hook = "rendered"
    /\ last[i].failed = "attachShadow"
    /\ reactRoot[i] # 0

\* C26: the factory an instance mounts is the one its own bundle execution
\* published in the same invocation; an instance whose execution published
\* nothing never mounts the factory another instance left in
\* window.ReactAppComponent.
C26_OwnFactoryMounted ==
  \A i \in Inst : mountedFactory[i] # 0 => mountedFactory[i] = i

\* C29: disconnectedCallback leaves _hasRendered and _reactRoot as they are,
\* so after the teardown of a mounted instance every later renderedCallback
\* on it decodes, executes, attaches, creates and renders nothing, and the
\* application is not mounted again.
C29_TornDownIsTerminal ==
  \A i \in Inst :
    unmounts[i] >= 1 =>
      /\ hasRendered[i]
      /\ reactRoot[i] = mountedAt[i]
      /\ mounts[i] = 1
      /\ decodes[i] <= mountedAt[i]
      /\ executes[i] <= mountedAt[i]
      /\ last[i].hook = "rendered" => (last[i].done = <<>> /\ last[i].failed = "none")

\* C29 witness: an instance was mounted, torn down, and rendered again
C29_Witness ==
  \E i \in Inst :
    /\ unmounts[i] = 1
    /\ ~live[i]
    /\ last[i].hook = "rendered"
    /\ calls[i] > mountedAt[i]

====
